---- MODULE Spec2Model ----
(***************************************************************************)
(* A model of source2/utils/fgd_parser.py: the FGD lexer (FGDLexer) and    *)
(* the recursive-descent parser (FGDParser).                               *)
(*                                                                         *)
(* A character is a one-character string, a text (buffer, payload) is a    *)
(* sequence of characters.  The model covers ASCII text only.              *)
(***************************************************************************)
EXTENDS Integers, Sequences, FiniteSets, TLC

VARIABLES lexer, emitted, raised, parser, files, before, taken

vars == <<lexer, emitted, raised, parser, files, before, taken>>

(***************************************************************************)
(* Bounds of the model.                                                    *)
(***************************************************************************)
\* longest buffer handed to the stand-alone lexer
MaxLen == 4
\* longest buffer under the calls of the lookahead
MaxCallLen == 3
\* how far past the end of the buffer a scanning loop is followed
MaxOverrun == 2
\* most top-level fragments in a parser buffer
MaxTop == 3
\* most entries in a generated class body
MaxBody == 2

(***************************************************************************)
(* Characters: str.isspace, str.isdigit, str.isidentifier, str.lower on    *)
(* one character ("" is in none of the classes).                           *)
(***************************************************************************)
\* the upper case letters and their lower case
UpperToLower ==
    [A |-> "a", B |-> "b", C |-> "c", D |-> "d", E |-> "e", F |-> "f", G |-> "g",
     H |-> "h", I |-> "i", J |-> "j", K |-> "k", L |-> "l", M |-> "m", N |-> "n",
     O |-> "o", P |-> "p", Q |-> "q", R |-> "r", S |-> "s", T |-> "t", U |-> "u",
     V |-> "v", W |-> "w", X |-> "x", Y |-> "y", Z |-> "z"]

isspace(c) == c \in {" ", "\t", "\n", "\r"}

isdigit(c) == c \in {"0", "1", "2", "3", "4", "5", "6", "7", "8", "9"}

isidentifier(c) ==
    \/ c \in DOMAIN UpperToLower
    \/ \E u \in DOMAIN UpperToLower : c = UpperToLower[u]
    \/ c = "_"

\* str.lower
lower(s) ==
    [i \in 1..Len(s) |-> IF s[i] \in DOMAIN UpperToLower THEN UpperToLower[s[i]] ELSE s[i]]

\* str.endswith
endswith(s, suffix) ==
    /\ Len(s) >= Len(suffix)
    /\ SubSeq(s, Len(s) - Len(suffix) + 1, Len(s)) = suffix

\* str.startswith
startswith(s, prefix) == Len(prefix) <= Len(s) /\ SubSeq(s, 1, Len(prefix)) = prefix

DigitValue == [c \in {"0", "1", "2", "3", "4", "5", "6", "7", "8", "9"} |->
    CASE c = "0" -> 0 [] c = "1" -> 1 [] c = "2" -> 2 [] c = "3" -> 3
      [] c = "4" -> 4 [] c = "5" -> 5 [] c = "6" -> 6 [] c = "7" -> 7
      [] c = "8" -> 8 [] c = "9" -> 9]

RECURSIVE DecimalValue(_)
DecimalValue(s) ==
    IF s = <<>> THEN 0
    ELSE 10 * DecimalValue(SubSeq(s, 1, Len(s) - 1)) + DigitValue[s[Len(s)]]

\* int(text) accepts an optional sign followed by one or more digits
IntAccepts(s) ==
    /\ \E i \in 1..Len(s) : isdigit(s[i])
    /\ \A i \in 1..Len(s) : isdigit(s[i]) \/ (i = 1 /\ s[i] = "-")

\* int(text) where it is accepted
int(s) == IF s[1] = "-" THEN 0 - DecimalValue(Tail(s)) ELSE DecimalValue(s)

(***************************************************************************)
(* Token payloads: a text, an integer or None, in one record shape.        *)
(***************************************************************************)
Str(s) == [t |-> "str", s |-> s, n |-> 0]

Num(n) == [t |-> "int", s |-> <<>>, n |-> n]

None == [t |-> "None", s |-> <<>>, n |-> 0]

\* a (FGDToken, payload) pair as FGDLexer.lex yields it
Token(type, value) == [type |-> type, value |-> value]

\* the FGDToken member of a one-character punctuation symbol
Punctuation == [c \in {"{", "}", "(", ")", "[", "]", "=", ":", "-", "+", ",", ".", "/", "\\"} |->
    CASE c = "{" -> "LBRACE"   [] c = "}" -> "RBRACE"
      [] c = "(" -> "LPAREN"   [] c = ")" -> "RPAREN"
      [] c = "[" -> "LBRACKET" [] c = "]" -> "RBRACKET"
      [] c = "=" -> "EQUALS"   [] c = ":" -> "COLON"
      [] c = "-" -> "MINUS"    [] c = "+" -> "PLUS"
      [] c = "," -> "COMMA"    [] c = "." -> "DOT"
      [] c = "/" -> "FSLASH"   [] c = "\\" -> "BSLASH"]

(***************************************************************************)
(* FGDLexer.  `at` is the place where the generator lex() stands:          *)
(* "top" the head of the outer loop, "string", "num", "ident", "keyword",  *)
(* "line_comment", "block_comment" the inner scanning loops, "finished"    *)
(* after EOF was yielded, "raised" after an exception left the generator.  *)
(***************************************************************************)
FGDLexer(buffer, buffer_name) ==
    [buffer |-> buffer, buffer_name |-> buffer_name,
     offset |-> 0, line_char_id |-> 1, line_id |-> 1,
     at |-> "top", string_buffer |-> <<>>]

symbol(L) == IF L.offset < Len(L.buffer) THEN L.buffer[L.offset + 1] ELSE ""

next_symbol(L) == IF L.offset + 1 < Len(L.buffer) THEN L.buffer[L.offset + 2] ELSE ""

\* FGDLexer.leftover
leftover(L) == SubSeq(L.buffer, L.offset + 1, Len(L.buffer))

\* FGDLexer.__bool__
LexerBool(L) == L.offset < Len(L.buffer)

\* advance1 that counts a newline as one more column of the same line
advance1_flat(L) ==
    [L EXCEPT !.line_char_id = L.line_char_id + 1,
              !.offset = L.offset + 1]

\* one round of the loop of FGDLexer.advance
advance1(L) ==
    [L EXCEPT !.line_char_id = IF symbol(L) = "\n" THEN 1 ELSE L.line_char_id + 1,
              !.line_id = IF symbol(L) = "\n" THEN L.line_id + 1 ELSE L.line_id,
              !.offset = L.offset + 1]

\* the text FGDLexer.advance() returns ("" past the end)
advanced(L) == IF symbol(L) = "" THEN <<>> ELSE <<symbol(L)>>

\* the outcome of one step of the generator
Goes(L) == [lexer |-> L, yield |-> <<>>, raise |-> "none"]

Yields(L, tok) == [lexer |-> L, yield |-> <<tok>>, raise |-> "none"]

Raises(L, exc) == [lexer |-> [L EXCEPT !.at = "raised"], yield |-> <<>>, raise |-> exc]

NumericStart(L) == isdigit(symbol(L)) \/ (symbol(L) = "-" /\ isdigit(next_symbol(L)))
\* one character at the head of the outer loop: lines 88-160
\* the head of the outer loop: lines 87-161
LexSymbol(L, c) ==
    IF c = "\"" THEN Goes([advance1(L) EXCEPT !.at = "string", !.string_buffer = <<>>])
    ELSE IF isspace(c) THEN Goes(advance1(L))
    ELSE IF NumericStart(L) THEN Goes([L EXCEPT !.at = "num", !.string_buffer = <<>>])
    ELSE IF isidentifier(c) THEN Goes([advance1(L) EXCEPT !.at = "ident", !.string_buffer = <<c>>])
    ELSE IF c = "@" /\ isidentifier(next_symbol(L))
         THEN Goes([advance1(L) EXCEPT !.at = "keyword", !.string_buffer = <<c>>])
    ELSE IF c = "/" /\ next_symbol(L) = "/" THEN Goes([L EXCEPT !.at = "line_comment"])
    ELSE IF c = "/" /\ next_symbol(L) = "*" THEN Goes([advance1(advance1(L)) EXCEPT !.at = "block_comment"])
    ELSE IF c \in DOMAIN Punctuation THEN Yields(advance1(L), Token(Punctuation[c], Str(<<c>>)))
    ELSE Raises(L, "FGDLexerException")

\* LexTop whose generator does not end with the yield of line 161
LexTopUnending(L) ==
    IF L.offset < Len(L.buffer) THEN LexSymbol(L, symbol(L))
    ELSE Yields(L, Token("EOF", None))

\* the head of the outer loop: lines 87 and 161
LexTop(L) ==
    IF L.offset < Len(L.buffer) THEN LexSymbol(L, symbol(L))
    ELSE Yields([L EXCEPT !.at = "finished"], Token("EOF", None))

\* the string loop: lines 91-96
LexString(L) ==
    IF symbol(L) = "\""
    THEN Yields([advance1(L) EXCEPT !.at = "top"], Token("STRING", Str(L.string_buffer)))
    ELSE Goes([advance1(L) EXCEPT !.string_buffer = L.string_buffer \o advanced(L)])

\* the numeric loop: lines 101-103
LexNum(L) ==
    IF NumericStart(L)
    THEN Goes([advance1(L) EXCEPT !.string_buffer = L.string_buffer \o advanced(L)])
    ELSE IF IntAccepts(L.string_buffer)
    THEN Yields([L EXCEPT !.at = "top"], Token("NUMERIC", Num(int(L.string_buffer))))
    ELSE Raises(L, "ValueError")

\* the identifier loop: lines 106-110
LexIdent(L) ==
    IF isspace(symbol(L)) \/ ~(isidentifier(symbol(L)) \/ isdigit(symbol(L)))
    THEN Yields([L EXCEPT !.at = "top"], Token("IDENTIFIER", Str(L.string_buffer)))
    ELSE Goes([advance1(L) EXCEPT !.string_buffer = L.string_buffer \o advanced(L)])

\* the keyword loop: lines 113-117
LexKeyword(L) ==
    IF isspace(symbol(L)) \/ ~isidentifier(symbol(L))
    THEN Yields([L EXCEPT !.at = "top"], Token("KEYWORD", Str(L.string_buffer)))
    ELSE Goes([advance1(L) EXCEPT !.string_buffer = L.string_buffer \o advanced(L)])

\* the line comment loop: lines 119-122
LexLineComment(L) ==
    IF symbol(L) = "\n" THEN Goes([L EXCEPT !.at = "top"]) ELSE Goes(advance1(L))

\* the block comment loop: lines 125-129
LexBlockComment(L) ==
    IF symbol(L) = "*" /\ next_symbol(L) = "/"
    THEN Goes([advance1(advance1(L)) EXCEPT !.at = "top"])
    ELSE Goes(advance1(L))

\* one step of the generator lex(), from where it stands
LexStep(L) ==
    CASE L.at = "top" -> LexTop(L)
      [] L.at = "string" -> LexString(L)
      [] L.at = "num" -> LexNum(L)
      [] L.at = "ident" -> LexIdent(L)
      [] L.at = "keyword" -> LexKeyword(L)
      [] L.at = "line_comment" -> LexLineComment(L)
      [] L.at = "block_comment" -> LexBlockComment(L)
      [] OTHER -> [lexer |-> L, yield |-> <<>>, raise |-> "StopIteration"]

\* a scanning loop that has left the buffer behind by MaxOverrun characters
Overrun(L) == L.offset >= Len(L.buffer) + MaxOverrun

(***************************************************************************)
(* next(self._tokens): the generator runs to its next yield or raise.  A   *)
(* scanning loop that has run MaxOverrun characters past the end of the    *)
(* buffer never leaves it again: the call does not return ("hang").        *)
(***************************************************************************)
RECURSIVE NextTok(_)

\* the generator after a step: suspended at a yield, left by a raise, or running on
NextAfter(r) == IF r.yield # <<>> \/ r.raise # "none" THEN r ELSE NextTok(r.lexer)

NextTok(L) ==
    IF Overrun(L) THEN [lexer |-> L, yield |-> <<>>, raise |-> "hang"]
    ELSE NextAfter(LexStep(L))

\* the string literals of FGDParser
Literal ==
    [mapsize |-> <<"@", "m", "a", "p", "s", "i", "z", "e">>,
     include |-> <<"@", "i", "n", "c", "l", "u", "d", "e">>,
     exclude |-> <<"@", "e", "x", "c", "l", "u", "d", "e">>,
     entitygroup |-> <<"@", "e", "n", "t", "i", "t", "y", "g", "r", "o", "u", "p">>,
     class |-> <<"c", "l", "a", "s", "s">>,
     base |-> <<"b", "a", "s", "e">>,
     color |-> <<"c", "o", "l", "o", "r">>,
     metadata |-> <<"m", "e", "t", "a", "d", "a", "t", "a">>,
     input |-> <<"i", "n", "p", "u", "t">>,
     output |-> <<"o", "u", "t", "p", "u", "t">>,
     choices |-> <<"c", "h", "o", "i", "c", "e", "s">>,
     flags |-> <<"f", "l", "a", "g", "s">>,
     tag_list |-> <<"t", "a", "g", "_", "l", "i", "s", "t">>]

\* `sub in s`
contains(s, sub) ==
    \E i \in 0..(Len(s) - Len(sub)) : SubSeq(s, i + 1, i + Len(sub)) = sub

(***************************************************************************)
(* Python dicts as functions on their keys.                                *)
(***************************************************************************)
EmptyDict == <<>>

Put(d, k, v) == [x \in (DOMAIN d) \cup {k} |-> IF x = k THEN v ELSE d[x]]

\* dict.update
Update(d, e) == [x \in (DOMAIN d) \cup (DOMAIN e) |-> IF x \in DOMAIN e THEN e[x] ELSE d[x]]

\* the payload True of a bare modifier
True == [t |-> "True", s |-> <<>>, n |-> 0]

(***************************************************************************)
(* FGDParser.  `status` is "running" inside parse(), "returned" after it,  *)
(* or the exception that left it ("hang": it never returns).  `at` is      *)
(* "top" in the loop of parse() and "body" in the loop over the entries of *)
(* a class body, where class_def is the class under construction.  tok,    *)
(* value and flag hold what the last call returned (advance its token,     *)
(* expect and the _parse_ methods their value, match its truth), locals    *)
(* the local variables of the methods that are running.  Payloads are      *)
(* kept as Str/Num/None/True wherever the program keeps them.              *)
(***************************************************************************)
NoTok == Token("none", None)

FGDParser(buffer, buffer_name) ==
    [lexer |-> FGDLexer(buffer, buffer_name), path |-> buffer_name, last_peek |-> <<>>,
     classes |-> <<>>, excludes |-> <<>>, pragmas |-> EmptyDict,
     includes |-> <<>>, entity_groups |-> <<>>,
     status |-> "running", at |-> "top", class_def |-> EmptyDict, where |-> <<0, 0>>,
     tok |-> NoTok, value |-> None, flag |-> FALSE, locals |-> EmptyDict]

Failed(P) == P.status # "running"

\* an exception of the lexer leaves the parser through next()
LexRaise(P, r) == [P EXCEPT !.lexer = r.lexer, !.status = r.raise]

\* line 187
PeekNext(P, r) ==
    IF r.raise # "none" THEN LexRaise(P, r)
    ELSE [P EXCEPT !.lexer = r.lexer, !.last_peek = r.yield, !.tok = r.yield[1]]

\* peek that asks the lexer at every call
peek_pulling(P) == IF Failed(P) THEN P ELSE PeekNext(P, NextTok(P.lexer))

\* lines 185-188
peek(P) ==
    IF Failed(P) THEN P
    ELSE IF P.last_peek = <<>> THEN PeekNext(P, NextTok(P.lexer))
    ELSE [P EXCEPT !.tok = P.last_peek[1]]

\* line 195
AdvanceNext(P, r) ==
    IF r.raise # "none" THEN LexRaise(P, r)
    ELSE [P EXCEPT !.lexer = r.lexer, !.tok = r.yield[1]]

\* lines 190-195
advance(P) ==
    IF Failed(P) THEN P
    ELSE IF P.last_peek # <<>> THEN [P EXCEPT !.tok = P.last_peek[1], !.last_peek = <<>>]
    ELSE AdvanceNext(P, NextTok(P.lexer))

\* ParserRaise that reports the column less the length of the token's text
ParserRaiseAtToken(P) ==
    [P EXCEPT !.status = "FGDParserException",
              !.where = <<P.lexer.line_id,
                          P.lexer.line_char_id - Len(P.last_peek[1].value.s)>>]

\* raise FGDParserException(... at line_id:char_id)
ParserRaise(P) ==
    [P EXCEPT !.status = "FGDParserException",
              !.where = <<P.lexer.line_id, P.lexer.line_char_id>>]

\* lines 199-204, q the parser after the peek of line 198
ExpectSeen(q, token_type) ==
    IF Failed(q) THEN q
    ELSE IF q.tok.type = token_type THEN [advance(q) EXCEPT !.value = q.tok.value]
    ELSE ParserRaise(q)

\* lines 197-204
expect(P, token_type) == ExpectSeen(peek(P), token_type)

\* lines 208-212, q the parser after the peek of line 207
MatchSeen(q, token_type, consume) ==
    IF Failed(q) THEN q
    ELSE IF q.tok.type # token_type THEN [q EXCEPT !.flag = FALSE]
    ELSE IF consume THEN [advance(q) EXCEPT !.flag = TRUE]
    ELSE [q EXCEPT !.flag = TRUE]

\* lines 206-212
match(P, token_type, consume) == MatchSeen(peek(P), token_type, consume)

(***************************************************************************)
(* Statements on local variables.  Each leaves a failed parser as it is.   *)
(***************************************************************************)
\* x = v
Assign(P, x, v) == IF Failed(P) THEN P ELSE [P EXCEPT !.locals = Put(@, x, v)]

\* x = <the call that made P>
Bind(P, x) == Assign(P, x, P.value)

\* d[k] = v, all three local variables
DictSet(P, d, k, v) ==
    IF Failed(P) THEN P
    ELSE [P EXCEPT !.locals = Put(@, d, Put(P.locals[d], P.locals[k], P.locals[v]))]

\* l.append(<the call that made P>)
Add(P, l) ==
    IF Failed(P) THEN P ELSE [P EXCEPT !.locals = Put(@, l, Append(P.locals[l], P.value))]

\* x += sep + <the call that made P>
Concat(P, x, sep) ==
    IF Failed(P) THEN P
    ELSE [P EXCEPT !.locals = Put(@, x, Str(P.locals[x].s \o sep \o P.value.s))]

\* return v
SetValue(P, v) == IF Failed(P) THEN P ELSE [P EXCEPT !.value = v]

\* return x
Return(P, x) == IF Failed(P) THEN P ELSE [P EXCEPT !.value = P.locals[x]]

\* _, value = self.advance(), a the parser after the call
TokValue(a) == IF Failed(a) THEN a ELSE [a EXCEPT !.value = a.tok.value]

\* line 253
MapsizeSet(P) ==
    IF Failed(P) THEN P
    ELSE [P EXCEPT !.pragmas = Put(@, "mapsize", <<P.locals.max_x.n, P.locals.max_y.n>>)]

\* lines 247-253
parse_mapsize(P) ==
    MapsizeSet(expect(Bind(expect(expect(Bind(expect(expect(P,
        "LPAREN"), "NUMERIC"), "max_x"), "COMMA"), "NUMERIC"), "max_y"), "RPAREN"))

\* the loops of lines 259-263 and 287-291 over `key = value`, value of type
\* value_type, into the dict `pairs`; m the parser after the match of their head
RECURSIVE PairsLoop(_, _)
PairsLoop(m, value_type) ==
    IF Failed(m) \/ m.flag THEN m
    ELSE PairsLoop(match(DictSet(Bind(expect(expect(Bind(expect(m,
             "IDENTIFIER"), "key"), "EQUALS"), value_type), "value"),
             "pairs", "key", "value"), "RBRACE", FALSE), value_type)

\* lines 258-264, m the parser after the match of line 257
GroupBraces(m) ==
    IF Failed(m) \/ ~m.flag THEN m
    ELSE advance(PairsLoop(match(advance(m), "RBRACE", FALSE), "IDENTIFIER"))

\* line 265
GroupAdd(P) ==
    IF Failed(P) THEN P
    ELSE [P EXCEPT !.entity_groups =
              Append(@, [name |-> P.locals.group_name, meta |-> P.locals.pairs])]

\* lines 255-265
parse_entity_group(P) ==
    GroupAdd(GroupBraces(match(Assign(Bind(expect(P,
        "STRING"), "group_name"), "pairs", EmptyDict), "LBRACE", FALSE)))

RECURSIVE JoinedLoop(_)

\* lines 340-343, m the parser after the match of line 340
JoinedString(m) ==
    IF Failed(m) THEN m
    ELSE IF ~m.flag THEN Return(m, "joined")
    ELSE JoinedLoop(match(Concat(expect(m, "STRING"), "joined", <<>>), "PLUS", TRUE))

\* the loop of lines 339-343 and the return of line 344, plus the parser after
\* the match of line 339
JoinedLoop(plus) ==
    IF Failed(plus) THEN plus
    ELSE IF ~plus.flag THEN Return(plus, "joined")
    ELSE JoinedString(match(plus, "STRING", FALSE))

\* lines 337-344
parse_joined_string(P) ==
    JoinedLoop(match(Bind(expect(P, "STRING"), "joined"), "PLUS", TRUE))

\* the loops of lines 327-329 and 333-335, `sep` the token between the parts, m
\* the parser after the match of their head
RECURSIVE DottedLoop(_, _)
DottedLoop(m, sep) ==
    IF Failed(m) THEN m
    ELSE IF ~m.flag THEN Return(m, "dotted")
    ELSE DottedLoop(match(Concat(expect(m, "IDENTIFIER"), "dotted", <<".">>), sep, TRUE),
                    sep)

\* lines 325-329 (sep "DOT") and 331-335 (sep "COLON")
parse_dotted(P, sep) ==
    DottedLoop(match(Bind(expect(P, "IDENTIFIER"), "dotted"), sep, TRUE), sep)

parse_fully_qualified_identifier(P) == parse_dotted(P, "DOT")

parse_complex_type(P) == parse_dotted(P, "COLON")

RECURSIVE BasesLoop(_)

\* lines 351-354, m the parser after the match of line 351
BasesAt(m) ==
    IF Failed(m) THEN m
    ELSE IF m.flag THEN BasesLoop(m)
    ELSE Return(expect(m, "RPAREN"), "bases")

\* the loop of lines 349-352
BasesLoop(P) == BasesAt(match(Add(expect(P, "IDENTIFIER"), "bases"), "COMMA", TRUE))

\* lines 346-354
parse_bases(P) == BasesLoop(expect(Assign(P, "bases", <<>>), "LPAREN"))

\* the loop of lines 361-362, m the parser after the match of line 361
RECURSIVE ArgsLoop(_)
ArgsLoop(m) ==
    IF Failed(m) \/ m.flag THEN m
    ELSE ArgsLoop(match(Add(expect(m, "IDENTIFIER"), "args"), "RPAREN", FALSE))

\* line 367; storage is class_def['io'] itself
IOStore(P) ==
    IF Failed(P) THEN P
    ELSE [P EXCEPT !.class_def.io =
              Put(@, P.locals.io_name,
                  [type |-> P.locals.io_type, args |-> P.locals.args, doc |-> P.value])]

\* line 366, s the parser after its match
IODoc(s) ==
    IF Failed(s) THEN s
    ELSE IF s.flag THEN parse_joined_string(s)
    ELSE SetValue(s, None)

\* IOColon with the guard of line 364 dropped: the entry is stored without a colon too
IOColonAlways(colon) ==
    IF Failed(colon) THEN colon
    ELSE IF ~colon.flag THEN IOStore(SetValue(colon, None))
    ELSE IOStore(IODoc(match(advance(colon), "STRING", FALSE)))

\* lines 365-367, colon the parser after the match of line 364
IOColon(colon) ==
    IF Failed(colon) \/ ~colon.flag THEN colon
    ELSE IOStore(IODoc(match(advance(colon), "STRING", FALSE)))

\* lines 357-363
IOHead(P) ==
    expect(ArgsLoop(match(Assign(expect(Bind(expect(Bind(expect(P,
        "IDENTIFIER"), "io_type"), "IDENTIFIER"), "io_name"), "LPAREN"), "args", <<>>),
        "RPAREN", FALSE)), "RPAREN")

\* lines 356-367
parse_class_io(P) == IOColon(match(IOHead(P), "COLON", FALSE))

RECURSIVE MetaLoop(_)

\* lines 378-381, c the parser after the match of line 378
MetaComma(c) ==
    IF Failed(c) THEN c
    ELSE IF c.flag THEN MetaLoop(c)
    ELSE Return(expect(c, "RBRACKET"), "meta")

\* lines 374-376, eq the parser after the match of line 373
MetaValue(eq) ==
    IF Failed(eq) THEN eq
    ELSE IF eq.flag THEN expect(eq, "STRING")
    ELSE SetValue(eq, True)

\* the loop of lines 371-379
MetaLoop(P) ==
    MetaComma(match(DictSet(Bind(MetaValue(match(Bind(expect(P,
        "IDENTIFIER"), "meta_name"), "EQUALS", TRUE)), "meta_value"),
        "meta", "meta_name", "meta_value"), "COMMA", TRUE))

\* lines 369-381
parse_class_param_meta(P) == MetaLoop(Assign(P, "meta", EmptyDict))

\* line 396, q the parser after the peek of its first match
MatchAnySeen(q, token_types) ==
    IF Failed(q) THEN q ELSE [q EXCEPT !.flag = q.tok.type \in token_types]

\* self.match(A) or self.match(B) or ...: every match peeks the same token
match_any(P, token_types) == MatchAnySeen(peek(P), token_types)

\* lines 400-403, s the parser after the match of line 400
ValueString(s) ==
    IF Failed(s) THEN s
    ELSE IF s.flag THEN parse_joined_string(s)
    ELSE TokValue(advance(s))

\* lines 399-405, c the parser after the match of line 399
ValueColon(c) ==
    IF Failed(c) THEN c
    ELSE IF c.flag THEN SetValue(c, None)
    ELSE ValueString(match(c, "STRING", FALSE))

\* the loop of lines 395-406, m the parser after the matches of line 396
RECURSIVE DataLoop(_)
DataLoop(m) ==
    IF Failed(m) \/ ~m.flag THEN m
    ELSE DataLoop(match_any(Add(ValueColon(match(expect(m, "COLON"), "COLON", FALSE)),
                                "data"), {"STRING", "NUMERIC", "COLON"}))

\* lines 393-406, colon the parser after the match of line 394
ParamData(colon) ==
    IF Failed(colon) THEN colon
    ELSE IF colon.flag
         THEN DataLoop(match_any(Assign(colon, "data", <<>>), {"STRING", "NUMERIC", "COLON"}))
    ELSE Assign(colon, "data", <<>>)

RECURSIVE ChoicesLoop(_)

\* lines 413-416, s the parser after the match of line 413
ChoicesKey(s) ==
    IF Failed(s) THEN s
    ELSE ChoicesLoop(match(DictSet(Bind(expect(expect(Bind(
             expect(s, IF s.flag THEN "STRING" ELSE "NUMERIC"),
             "name"), "COLON"), "STRING"), "value"), "choices", "name", "value"),
             "RBRACKET", FALSE))

\* the loop of lines 412-416, m the parser after the match of line 412
ChoicesLoop(m) ==
    IF Failed(m) \/ m.flag THEN m ELSE ChoicesKey(match(m, "STRING", FALSE))

\* lines 431 and 446
FlagsPut(P) ==
    IF Failed(P) THEN P
    ELSE [P EXCEPT !.locals = Put(@, "flags",
              Put(P.locals.flags, P.locals.name, <<P.locals.mask, P.locals.default>>))]

\* the loops of lines 424-431 (first "NUMERIC") and 439-446 (first "STRING"), m
\* the parser after the match of their head
RECURSIVE FlagsLoop(_, _)
FlagsLoop(m, first) ==
    IF Failed(m) \/ m.flag THEN m
    ELSE FlagsLoop(match(FlagsPut(Bind(expect(expect(Bind(expect(expect(Bind(expect(m,
             first), "mask"), "COLON"), "STRING"), "name"), "COLON"), "NUMERIC"),
             "default")), "RBRACKET", FALSE), first)

\* EnumerationOf that tests for flags first
EnumerationOfFlagsFirst(param_type) ==
    IF contains(lower(param_type), Literal.flags) THEN "flags"
    ELSE IF contains(lower(param_type), Literal.choices) THEN "choices"
    ELSE IF contains(lower(param_type), Literal.tag_list) THEN "tag_list"
    ELSE "none"

\* which of the branches of lines 407, 419 and 434 a type takes
EnumerationOf(param_type) ==
    IF contains(lower(param_type), Literal.choices) THEN "choices"
    ELSE IF contains(lower(param_type), Literal.flags) THEN "flags"
    ELSE IF contains(lower(param_type), Literal.tag_list) THEN "tag_list"
    ELSE "none"

\* prop[key] = <the call that made P>
PropSet(P, key) ==
    IF Failed(P) THEN P
    ELSE [P EXCEPT !.locals = Put(@, "prop", Put(P.locals.prop, key, P.value))]

\* lines 409-418, 421-433 and 436-448
EnumBody(eq, kind) ==
    PropSet(Return(expect(
        IF kind = "choices"
        THEN ChoicesLoop(match(Assign(expect(advance(eq), "LBRACKET"),
                                      "choices", EmptyDict), "RBRACKET", FALSE))
        ELSE FlagsLoop(match(Assign(expect(advance(eq), "LBRACKET"),
                                    "flags", EmptyDict), "RBRACKET", FALSE),
                       IF kind = "flags" THEN "NUMERIC" ELSE "STRING"),
        "RBRACKET"), IF kind = "choices" THEN "choices" ELSE "flags"), kind)

\* lines 407-448, eq the parser after the match of line 407
EnumAt(eq) ==
    IF Failed(eq) THEN eq
    ELSE IF ~eq.flag \/ EnumerationOf(eq.locals.param_type.s) = "none" THEN eq
    ELSE EnumBody(eq, EnumerationOf(eq.locals.param_type.s))

\* lines 390-391, lb the parser after the match of line 390
ParamMeta(lb) ==
    IF Failed(lb) \/ ~lb.flag THEN lb
    ELSE PropSet(parse_class_param_meta(lb), "meta")

\* lines 450-453; storage is class_def['props'] itself
ParamStore(P) ==
    IF Failed(P) THEN P
    ELSE [P EXCEPT !.class_def.props =
              Put(@, P.locals.name,
                  Put(Put(Put(P.locals.prop, "name", P.locals.name),
                          "type", P.locals.param_type), "data", P.locals.data))]

\* lines 384-407, up to the match of line 407
ParamHead(P) ==
    match(ParamData(match(ParamMeta(match(expect(Bind(
        parse_complex_type(expect(Bind(
        parse_fully_qualified_identifier(Assign(P, "prop", EmptyDict)),
        "name"), "LPAREN")), "param_type"), "RPAREN"), "LBRACKET", TRUE)),
        "COLON", FALSE)), "EQUALS", FALSE)

\* lines 383-453
parse_class_param(P) == ParamStore(EnumAt(ParamHead(P)))

RECURSIVE GenericLoop(_)

\* lines 299-300, c the parser after the match of line 299
GenericComma(c) ==
    IF Failed(c) THEN c
    ELSE GenericLoop(match(IF c.flag THEN advance(c) ELSE c, "RPAREN", FALSE))

\* the loop of lines 297-300, m the parser after the match of line 297
GenericLoop(m) ==
    IF Failed(m) \/ m.flag THEN m
    ELSE GenericComma(match(Add(TokValue(advance(m)), "items"), "COMMA", FALSE))

\* lines 295-303, lp the parser after the match of line 294
OtherAt(lp) ==
    IF Failed(lp) THEN lp
    ELSE IF ~lp.flag THEN SetValue(lp, True)
    ELSE Return(expect(GenericLoop(match(Assign(expect(lp, "LPAREN"), "items", <<>>),
                                         "RPAREN", FALSE)), "RPAREN"), "items")

\* lines 294-303; value is class_def['meta_props'][meta_prop_type]
baseclass_other(P) == OtherAt(match(P, "LPAREN", FALSE))

\* line 283
ColorValue(P) ==
    IF Failed(P) THEN P
    ELSE [P EXCEPT !.value = <<P.locals.r.n, P.locals.g.n, P.locals.b.n>>]

\* lines 278-283; value is class_def['meta_props'][meta_prop_type]
baseclass_color(P) ==
    ColorValue(expect(Bind(expect(Bind(expect(Bind(expect(expect(P,
        "LPAREN"), "NUMERIC"), "r"), "NUMERIC"), "g"), "NUMERIC"), "b"), "RPAREN"))

\* lines 285-292; value is class_def['meta_props'][meta_prop_type]
baseclass_metadata(P) ==
    Return(expect(PairsLoop(match(expect(Assign(P, "pairs", EmptyDict), "LBRACE"),
                                  "RBRACE", FALSE), "STRING"), "RBRACE"), "pairs")

\* class_def[key] = <the call that made P>
ClassSet(P, key) ==
    IF Failed(P) THEN P ELSE [P EXCEPT !.class_def = Put(@, key, P.value)]

\* class_def['meta_props'][meta_prop_type] = <the call that made P>
MetaPropSet(P) ==
    IF Failed(P) THEN P
    ELSE [P EXCEPT !.class_def.meta_props = Put(@, P.locals.meta_prop_type, P.value)]

\* lines 274-303, P the parser after line 273
ModifierTyped(P) ==
    IF Failed(P) THEN P
    ELSE IF P.value.s = Literal.base THEN ClassSet(parse_bases(P), "bases")
    ELSE IF P.value.s = Literal.color THEN MetaPropSet(baseclass_color(P))
    ELSE IF P.value.s = Literal.metadata THEN MetaPropSet(baseclass_metadata(P))
    ELSE MetaPropSet(baseclass_other(P))

\* the loop of lines 272-303, m the parser after the match of line 272
RECURSIVE ModifiersLoop(_)
ModifiersLoop(m) ==
    IF Failed(m) \/ m.flag THEN m
    ELSE ModifiersLoop(match(ModifierTyped(Bind(expect(m, "IDENTIFIER"), "meta_prop_type")),
                             "EQUALS", FALSE))

\* lines 271-303, m the parser after the match of line 271
HeadModifiers(m) ==
    IF Failed(m) \/ ~m.flag THEN m ELSE ModifiersLoop(match(m, "EQUALS", FALSE))

\* lines 310-311, s the parser after the match of line 310
DocString(s) ==
    IF Failed(s) \/ ~s.flag THEN s ELSE ClassSet(parse_joined_string(s), "doc")

\* lines 308-311, colon the parser after the match of line 308
HeadDoc(colon) ==
    IF Failed(colon) \/ ~colon.flag THEN colon
    ELSE DocString(match(advance(colon), "STRING", FALSE))

\* line 269
NewClass(P) ==
    [P EXCEPT !.class_def = [io |-> EmptyDict, props |-> EmptyDict, bases |-> <<>>,
                             meta_props |-> EmptyDict]]

\* the loop of line 314 is entered
HeadOpen(P) == IF Failed(P) THEN P ELSE [P EXCEPT !.at = "body"]

\* lines 267-313: _parse_baseclass up to the loop over the body
parse_baseclass_head(P) ==
    HeadOpen(expect(HeadDoc(match(ClassSet(expect(expect(HeadModifiers(match(NewClass(P),
        "IDENTIFIER", FALSE)), "EQUALS"), "IDENTIFIER"), "name"), "COLON", FALSE)),
        "LBRACKET"))

\* line 323; parse() goes on
ClassAppend(P) ==
    IF Failed(P) THEN P
    ELSE [P EXCEPT !.classes = Append(@, P.class_def), !.at = "top",
                   !.class_def = EmptyDict]

\* lines 322-323
baseclass_end(P) == ClassAppend(expect(P, "RBRACKET"))

\* lines 315-320, m the parser after the match of line 314
BodyAt(m) ==
    IF Failed(m) THEN m
    ELSE IF ~m.flag THEN baseclass_end(m)
    ELSE IF m.tok.value.s \in {Literal.input, Literal.output} THEN parse_class_io(m)
    ELSE parse_class_param(m)

\* one round of the loop of lines 314-320, or lines 322-323 after it
parse_baseclass_body(P) == BodyAt(match(P, "IDENTIFIER", FALSE))

\* ContentManager().find_file(include): the content under that name, or None (<<>>)
find_file(found, include) == IF include \in DOMAIN found THEN <<found[include]>> ELSE <<>>

\* what the calls of a round returned, and their local variables, are gone after it
Settle(P) == [P EXCEPT !.tok = NoTok, !.value = None, !.flag = FALSE, !.locals = EmptyDict]

\* the append of line 223
ExcludeAdd(P) == IF Failed(P) THEN P ELSE [P EXCEPT !.excludes = Append(@, P.value)]

\* line 223
parse_exclude(P) == ExcludeAdd(expect(P, "IDENTIFIER"))

\* MergeInclude that swallows the exception of the nested parse() and merges what
\* the nested parser had collected
MergeIncludeSwallowing(P, parsed_include) ==
    [P EXCEPT !.classes = @ \o parsed_include.classes,
              !.pragmas = Update(@, parsed_include.pragmas),
              !.excludes = @ \o parsed_include.excludes,
              !.entity_groups = @ \o parsed_include.entity_groups,
              !.includes = Append(@, P.locals.include)]

\* MergeInclude that puts the included items in front and keeps the parent's pragmas
MergeIncludeInFront(P, parsed_include) ==
    IF parsed_include.status # "returned"
    THEN [P EXCEPT !.status = parsed_include.status, !.where = parsed_include.where]
    ELSE [P EXCEPT !.classes = parsed_include.classes \o @,
                   !.pragmas = Update(parsed_include.pragmas, @),
                   !.excludes = parsed_include.excludes \o @,
                   !.entity_groups = parsed_include.entity_groups \o @,
                   !.includes = Append(@, P.locals.include)]

\* MergeInclude that takes over the includes of the included file as well
MergeIncludePropagating(P, parsed_include) ==
    IF parsed_include.status # "returned"
    THEN [P EXCEPT !.status = parsed_include.status, !.where = parsed_include.where]
    ELSE [P EXCEPT !.classes = @ \o parsed_include.classes,
                   !.pragmas = Update(@, parsed_include.pragmas),
                   !.excludes = @ \o parsed_include.excludes,
                   !.entity_groups = @ \o parsed_include.entity_groups,
                   !.includes = Append(@ \o parsed_include.includes, P.locals.include)]

\* lines 241-245; an exception of the nested parse() leaves this one as well
MergeInclude(P, parsed_include) ==
    IF parsed_include.status # "returned"
    THEN [P EXCEPT !.status = parsed_include.status, !.where = parsed_include.where]
    ELSE [P EXCEPT !.classes = @ \o parsed_include.classes,
                   !.pragmas = Update(@, parsed_include.pragmas),
                   !.excludes = @ \o parsed_include.excludes,
                   !.entity_groups = @ \o parsed_include.entity_groups,
                   !.includes = Append(@, P.locals.include)]

RECURSIVE parse_step(_, _), parse_run(_, _)

\* parse() from where it stands to its end
parse_run(P, found) == IF Failed(P) THEN P ELSE parse_run(parse_step(P, found), found)

\* IncludeRead with line 245 outside the test of line 238: a name that is not
\* found is listed all the same
IncludeReadListing(P, found) ==
    IF Failed(P) THEN P
    ELSE IF find_file(found, P.value.s) = <<>>
    THEN [P EXCEPT !.includes = Append(@, P.locals.include)]
    ELSE MergeInclude(P, parse_run(FGDParser(find_file(found, P.value.s)[1], P.value.s),
                                   found))

\* lines 237-245, P the parser after line 236
IncludeRead(P, found) ==
    IF Failed(P) \/ find_file(found, P.value.s) = <<>> THEN P
    ELSE MergeInclude(P, parse_run(FGDParser(find_file(found, P.value.s)[1], P.value.s),
                                   found))

\* lines 235-245
parse_include(P, found) == IncludeRead(Bind(expect(P, "STRING"), "include"), found)

\* KeywordBranch that lowers the keyword for @mapsize as for the others
KeywordBranchLowered(value) ==
    IF lower(value) = Literal.mapsize THEN "mapsize"
    ELSE IF lower(value) = Literal.include THEN "include"
    ELSE IF lower(value) = Literal.exclude THEN "exclude"
    ELSE IF lower(value) = Literal.entitygroup THEN "entitygroup"
    ELSE IF startswith(value, <<"@">>) /\ endswith(lower(value), Literal.class) THEN "baseclass"
    ELSE "other keyword"

\* which branch of lines 218-227 a keyword takes
KeywordBranch(value) ==
    IF value = Literal.mapsize THEN "mapsize"
    ELSE IF lower(value) = Literal.include THEN "include"
    ELSE IF lower(value) = Literal.exclude THEN "exclude"
    ELSE IF lower(value) = Literal.entitygroup THEN "entitygroup"
    ELSE IF startswith(value, <<"@">>) /\ endswith(lower(value), Literal.class) THEN "baseclass"
    ELSE "other keyword"

\* parse_keyword with an else branch that refuses the keyword
parse_keyword_refusing(a, found) ==
    IF Failed(a) THEN a
    ELSE CASE KeywordBranch(a.tok.value.s) = "mapsize" -> parse_mapsize(a)
           [] KeywordBranch(a.tok.value.s) = "include" -> parse_include(a, found)
           [] KeywordBranch(a.tok.value.s) = "exclude" -> parse_exclude(a)
           [] KeywordBranch(a.tok.value.s) = "entitygroup" -> parse_entity_group(a)
           [] KeywordBranch(a.tok.value.s) = "baseclass" -> parse_baseclass_head(a)
           [] OTHER -> ParserRaise(a)

\* lines 218-227, a the parser after the advance of line 217
parse_keyword(a, found) ==
    IF Failed(a) THEN a
    ELSE CASE KeywordBranch(a.tok.value.s) = "mapsize" -> parse_mapsize(a)
           [] KeywordBranch(a.tok.value.s) = "include" -> parse_include(a, found)
           [] KeywordBranch(a.tok.value.s) = "exclude" -> parse_exclude(a)
           [] KeywordBranch(a.tok.value.s) = "entitygroup" -> parse_entity_group(a)
           [] KeywordBranch(a.tok.value.s) = "baseclass" -> parse_baseclass_head(a)
           [] OTHER -> a

\* line 215 is false, or line 229: parse() returns
parse_return(P) == [P EXCEPT !.status = "returned"]

\* lines 229-233, eof the parser after the match of line 228
parse_other(eof) ==
    IF Failed(eof) THEN eof
    ELSE IF eof.flag THEN parse_return(eof)
    ELSE ParserRaise(eof)

\* lines 217-233, kw the parser after the match of line 216
TopAt(kw, found) ==
    IF Failed(kw) THEN kw
    ELSE IF kw.flag THEN parse_keyword(advance(kw), found)
    ELSE parse_other(match(kw, "EOF", FALSE))

\* one round of the loop of parse(): lines 215-233
parse_top(P, found) ==
    IF ~LexerBool(P.lexer) THEN parse_return(P)
    ELSE TopAt(match(P, "KEYWORD", FALSE), found)

parse_step(P, found) ==
    Settle(IF P.at = "top" THEN parse_top(P, found) ELSE parse_baseclass_body(P))

(***************************************************************************)
(* The lexer on its own: a consumer iterates lex() to its end.  lexer is   *)
(* the FGDLexer, emitted the tokens it has yielded, raised the exception   *)
(* that left it.                                                           *)
(***************************************************************************)
LexAlphabet == {"\"", "5", "3", "-", "a", "@", "/", "*", "\n", "?"}

RECURSIVE Texts(_, _)
Texts(alphabet, n) ==
    IF n = 0 THEN {<<>>}
    ELSE LET shorter == Texts(alphabet, n - 1)
         IN  shorter \cup {Append(s, c) : s \in {x \in shorter : Len(x) = n - 1}, c \in alphabet}

\* <memory>
MemoryName == <<"m">>

InitLex ==
    /\ \E buffer \in Texts(LexAlphabet, MaxLen) : lexer = FGDLexer(buffer, MemoryName)
    /\ emitted = <<>>
    /\ raised = "none"
    /\ parser = FGDParser(<<>>, MemoryName)
    /\ files = EmptyDict
    /\ before = FGDParser(<<>>, MemoryName)
    /\ taken = "none"

\* the generator takes one step from where it stands
LexApply ==
    /\ raised = "none"
    /\ ~Overrun(lexer)
    /\ LET r == LexStep(lexer)
       IN  /\ lexer' = r.lexer
           /\ emitted' = emitted \o r.yield
           /\ raised' = r.raise
    /\ UNCHANGED <<parser, files, before, taken>>

StepTop ==
    /\ lexer.at = "top"
    /\ LexApply

StepString ==
    /\ lexer.at = "string"
    /\ LexApply

StepNum ==
    /\ lexer.at = "num"
    /\ LexApply

StepIdent ==
    /\ lexer.at = "ident"
    /\ LexApply

StepKeyword ==
    /\ lexer.at = "keyword"
    /\ LexApply

StepLineComment ==
    /\ lexer.at = "line_comment"
    /\ LexApply

StepBlockComment ==
    /\ lexer.at = "block_comment"
    /\ LexApply

NextLex ==
    \/ StepTop
    \/ StepString
    \/ StepNum
    \/ StepIdent
    \/ StepKeyword
    \/ StepLineComment
    \/ StepBlockComment

SpecLex == InitLex /\ [][NextLex]_vars

(***************************************************************************)
(* The parser: parse() on one buffer, one round of its loops at a time.    *)
(* files is what the content manager held at the last @include, before the *)
(* parser as the last step found it, taken the branch that step took.      *)
(***************************************************************************)
\* @mapsize(1,2)
TopMapsize == <<"@", "m", "a", "p", "s", "i", "z", "e", "(", "1", ",", "2", ")">>

\* @include "a"
TopInclude == <<"@", "i", "n", "c", "l", "u", "d", "e", " ", "\"", "a", "\"">>

\* @exclude x
TopExclude == <<"@", "e", "x", "c", "l", "u", "d", "e", " ", "x">>

\* @entitygroup "g"
TopEntitygroup == <<"@", "e", "n", "t", "i", "t", "y", "g", "r", "o", "u", "p", " ", "\"", "g", "\"">>

\* {k=v}
TopBraces == <<"{", "k", "=", "v", "}">>

\*  x
TopStray == <<" ", "x">>

\* @foo
TopUnknown == <<"@", "f", "o", "o">>

\* @aclass=c[]
TopClass == <<"@", "a", "c", "l", "a", "s", "s", "=", "c", "[", "]">>

\* ?
TopBadChar == <<"?">>

\* @bclass=d[]@exclude y@entitygroup "h"@mapsize(3,4)
FileAll == <<"@", "b", "c", "l", "a", "s", "s", "=", "d", "[", "]", "@", "e", "x", "c", "l", "u", "d", "e", " ", "y", "@", "e", "n", "t", "i", "t", "y", "g", "r", "o", "u", "p", " ", "\"", "h", "\"", "@", "m", "a", "p", "s", "i", "z", "e", "(", "3", ",", "4", ")">>

\* @exclude y@exclude
FileSyntaxError == <<"@", "e", "x", "c", "l", "u", "d", "e", " ", "y", "@", "e", "x", "c", "l", "u", "d", "e">>

\* @exclude y ?
FileLexicalError == <<"@", "e", "x", "c", "l", "u", "d", "e", " ", "y", " ", "?">>

\* @include "b"@exclude y
FileNested == <<"@", "i", "n", "c", "l", "u", "d", "e", " ", "\"", "b", "\"", "@", "e", "x", "c", "l", "u", "d", "e", " ", "y">>

\* @exclude z@mapsize(5,6)
FileLeaf == <<"@", "e", "x", "c", "l", "u", "d", "e", " ", "z", "@", "m", "a", "p", "s", "i", "z", "e", "(", "5", ",", "6", ")">>

\* @aclass
ClassOpen == <<"@", "a", "c", "l", "a", "s", "s">>

\* =c
ClassName == <<"=", "c">>

\* [
ClassBody == <<"[">>

\* ]
ClassClose == <<"]">>

\*  base(T)
ModBase == <<" ", "b", "a", "s", "e", "(", "T", ")">>

\*  base(T,U)
ModBases == <<" ", "b", "a", "s", "e", "(", "T", ",", "U", ")">>

\*  m(a,b)
ModGeneric == <<" ", "m", "(", "a", ",", "b", ")">>

\*  m(
ModGenericOpen == <<" ", "m", "(">>

\*  flag
ModFlag == <<" ", "f", "l", "a", "g">>

\*  color(1 2 3)
ModColor == <<" ", "c", "o", "l", "o", "r", "(", "1", " ", "2", " ", "3", ")">>

\*  metadata{k="v"}
ModMetadata == <<" ", "m", "e", "t", "a", "d", "a", "t", "a", "{", "k", "=", "\"", "v", "\"", "}">>

\* :"d"
DocOne == <<":", "\"", "d", "\"">>

\* :"d"+"e"
DocTwo == <<":", "\"", "d", "\"", "+", "\"", "e", "\"">>

\*  input F(a, b) : "d"
IoCommaArgs == <<" ", "i", "n", "p", "u", "t", " ", "F", "(", "a", ",", " ", "b", ")", " ", ":", " ", "\"", "d", "\"">>

\*  input F(a b):"d"
IoSpaceArgs == <<" ", "i", "n", "p", "u", "t", " ", "F", "(", "a", " ", "b", ")", ":", "\"", "d", "\"">>

\*  input F(a)
IoNoColon == <<" ", "i", "n", "p", "u", "t", " ", "F", "(", "a", ")">>

\*  output G():
IoNoDoc == <<" ", "o", "u", "t", "p", "u", "t", " ", "G", "(", ")", ":">>

\*  h(integer) : 0
PropData == <<" ", "h", "(", "i", "n", "t", "e", "g", "e", "r", ")", " ", ":", " ", "0">>

\*  h(integer)[r,s="t"]
PropMeta == <<" ", "h", "(", "i", "n", "t", "e", "g", "e", "r", ")", "[", "r", ",", "s", "=", "\"", "t", "\"", "]">>

\*  p.q(a:b)::"x"+"y"
PropDotted == <<" ", "p", ".", "q", "(", "a", ":", "b", ")", ":", ":", "\"", "x", "\"", "+", "\"", "y", "\"">>

\*  h(integer):
PropDataOpen == <<" ", "h", "(", "i", "n", "t", "e", "g", "e", "r", ")", ":">>

\*  c(choices)=[0:"Off" 1:"On"]
PropChoices == <<" ", "c", "(", "c", "h", "o", "i", "c", "e", "s", ")", "=", "[", "0", ":", "\"", "O", "f", "f", "\"", " ", "1", ":", "\"", "O", "n", "\"", "]">>

\*  f(flags)=[1:"n":0]
PropFlags == <<" ", "f", "(", "f", "l", "a", "g", "s", ")", "=", "[", "1", ":", "\"", "n", "\"", ":", "0", "]">>

\*  t(tag_list)=["t":"n":0]
PropTagList == <<" ", "t", "(", "t", "a", "g", "_", "l", "i", "s", "t", ")", "=", "[", "\"", "t", "\"", ":", "\"", "n", "\"", ":", "0", "]">>

\*  b(flagschoices)=[]
PropBoth == <<" ", "b", "(", "f", "l", "a", "g", "s", "c", "h", "o", "i", "c", "e", "s", ")", "=", "[", "]">>

\* a newline and )
TopParenLine == <<"\n", ")">>

\* @MapSize(1,2)
TopMapSizeCased == <<"@", "M", "a", "p", "S", "i", "z", "e", "(", "1", ",", "2", ")">>

\* @INCLUDE "a"
TopIncludeCased == <<"@", "I", "N", "C", "L", "U", "D", "E", " ", "\"", "a", "\"">>

\* @Exclude x
TopExcludeCased == <<"@", "E", "x", "c", "l", "u", "d", "e", " ", "x">>

\* @EntityGroup "g"
TopEntityGroupCased == <<"@", "E", "n", "t", "i", "t", "y", "G", "r", "o", "u", "p", " ", "\"", "g", "\"">>

\* @SolidClass=c[]
TopSolidClass == <<"@", "S", "o", "l", "i", "d", "C", "l", "a", "s", "s", "=", "c", "[", "]">>

\* a blank
TopSpace == <<" ">>

\* the items that add to the document, and a token that is no keyword
TopItems == {TopMapsize, TopInclude, TopExclude, TopEntitygroup, TopStray}

\* the items a buffer ends with
TopEnds == {TopBraces, TopSpace, TopUnknown, TopClass, TopBadChar, TopParenLine,
            TopMapSizeCased, TopIncludeCased, TopExcludeCased, TopEntityGroupCased,
            TopSolidClass}

Modifiers == {<<>>, ModBase, ModBases, ModGeneric, ModGenericOpen, ModFlag, ModColor,
              ModMetadata}

Docs == {<<>>, DocOne, DocTwo}

\* " ?"
BodyBadChar == <<" ", "?">>

BodyItems == {BodyBadChar, IoCommaArgs, IoSpaceArgs, IoNoColon, IoNoDoc, PropData, PropMeta, PropDotted,
              PropDataOpen, PropChoices, PropFlags, PropTagList, PropBoth}

\* the concatenations of at most n texts of `items`
RECURSIVE Joined(_, _)
Joined(items, n) ==
    IF n = 0 THEN {<<>>}
    ELSE LET shorter == Joined(items, n - 1)
         IN  shorter \cup {s \o i : s \in shorter, i \in items}

Buffers ==
    Joined(TopItems, MaxTop)
    \cup {i \o e \o j : i \in Joined(TopItems, 1), e \in TopEnds, j \in Joined(TopItems, 1)}
    \cup {ClassOpen \o m \o ClassName \o d \o ClassBody \o ClassClose : m \in Modifiers, d \in Docs}
    \cup {ClassOpen \o ClassName \o ClassBody \o b \o c :
              b \in Joined(BodyItems, MaxBody), c \in {ClassClose, <<>>}}
    \cup {ClassOpen \o ModBase \o ClassName \o ClassBody \o PropData \o ClassClose}

\* the names a buffer includes
NameA == <<"a">>

NameB == <<"b">>

\* what the content manager may hold: a name it does not hold is not found
Resolvers ==
    {EmptyDict}
    \cup {Put(EmptyDict, NameA, c) : c \in {FileAll, FileSyntaxError, FileLexicalError, FileNested}}
    \cup {Put(Put(EmptyDict, NameA, FileNested), NameB, c) : c \in {FileLeaf, FileSyntaxError}}

InitParse ==
    /\ \E buffer \in Buffers : parser = FGDParser(buffer, MemoryName)
    /\ files = EmptyDict
    /\ before = FGDParser(<<>>, MemoryName)
    /\ taken = "none"
    /\ lexer = FGDLexer(<<>>, MemoryName)
    /\ emitted = <<>>
    /\ raised = "none"

AtTop == parser.status = "running" /\ parser.at = "top"

InBody == parser.status = "running" /\ parser.at = "body"

\* the parser after line 216 has looked at the current token
Looked == match(parser, "KEYWORD", FALSE)

\* the parser after line 314 has looked at the current token
Entry == match(parser, "IDENTIFIER", FALSE)

AtKeyword(branch) ==
    /\ AtTop
    /\ LexerBool(parser.lexer)
    /\ ~Failed(Looked)
    /\ Looked.flag
    /\ KeywordBranch(Looked.tok.value.s) = branch

AtOther ==
    /\ AtTop
    /\ LexerBool(parser.lexer)
    /\ ~Failed(Looked)
    /\ ~Looked.flag

\* a step of parse() that reads no file
Takes(branch, P) ==
    /\ parser' = Settle(P)
    /\ before' = parser
    /\ taken' = branch
    /\ UNCHANGED <<files, lexer, emitted, raised>>

ParseReturn ==
    /\ AtTop
    /\ ~LexerBool(parser.lexer)
    /\ Takes("return", parse_return(parser))

ParseLexerFails ==
    /\ AtTop
    /\ LexerBool(parser.lexer)
    /\ Failed(Looked)
    /\ Takes("lexer fails", Looked)

ParseMapsize ==
    /\ AtKeyword("mapsize")
    /\ Takes("mapsize", parse_mapsize(advance(Looked)))

ParseInclude ==
    /\ AtKeyword("include")
    /\ \E found \in Resolvers :
          /\ files' = found
          /\ parser' = Settle(parse_include(advance(Looked), found))
    /\ before' = parser
    /\ taken' = "include"
    /\ UNCHANGED <<lexer, emitted, raised>>

ParseExclude ==
    /\ AtKeyword("exclude")
    /\ Takes("exclude", parse_exclude(advance(Looked)))

ParseEntityGroup ==
    /\ AtKeyword("entitygroup")
    /\ Takes("entitygroup", parse_entity_group(advance(Looked)))

ParseBaseclass ==
    /\ AtKeyword("baseclass")
    /\ Takes("baseclass", parse_baseclass_head(advance(Looked)))

ParseOtherKeyword ==
    /\ AtKeyword("other keyword")
    /\ Takes("other keyword", parse_keyword(advance(Looked), files))

ParseEOF ==
    /\ AtOther
    /\ Looked.tok.type = "EOF"
    /\ Takes("eof", parse_other(match(Looked, "EOF", FALSE)))

ParseUnexpected ==
    /\ AtOther
    /\ Looked.tok.type # "EOF"
    /\ Takes("unexpected", parse_other(match(Looked, "EOF", FALSE)))

ClassLexerFails ==
    /\ InBody
    /\ Failed(Entry)
    /\ Takes("body lexer fails", Entry)

ClassIO ==
    /\ InBody
    /\ ~Failed(Entry)
    /\ Entry.flag
    /\ Entry.tok.value.s \in {Literal.input, Literal.output}
    /\ Takes("io", parse_class_io(Entry))

ClassParam ==
    /\ InBody
    /\ ~Failed(Entry)
    /\ Entry.flag
    /\ Entry.tok.value.s \notin {Literal.input, Literal.output}
    /\ Takes("param", parse_class_param(Entry))

ClassEnd ==
    /\ InBody
    /\ ~Failed(Entry)
    /\ ~Entry.flag
    /\ Takes("class end", baseclass_end(Entry))

NextParse ==
    \/ ParseReturn
    \/ ParseLexerFails
    \/ ParseMapsize
    \/ ParseInclude
    \/ ParseExclude
    \/ ParseEntityGroup
    \/ ParseBaseclass
    \/ ParseOtherKeyword
    \/ ParseEOF
    \/ ParseUnexpected
    \/ ClassLexerFails
    \/ ClassIO
    \/ ClassParam
    \/ ClassEnd

SpecParse == InitParse /\ [][NextParse]_vars

(***************************************************************************)
(* The lookahead on its own: a method of the parser calls peek, advance,   *)
(* match and expect in any order.  emitted is the tokens advance has       *)
(* returned, before the parser as the last call found it, taken that call. *)
(***************************************************************************)
CallAlphabet == {"a", " ", "(", "5", "?"}

CallTypes == {"IDENTIFIER", "LPAREN", "NUMERIC", "EOF"}

InitCalls ==
    /\ \E buffer \in Texts(CallAlphabet, MaxCallLen) : parser = FGDParser(buffer, MemoryName)
    /\ emitted = <<>>
    /\ before = FGDParser(<<>>, MemoryName)
    /\ taken = "none"
    /\ files = EmptyDict
    /\ lexer = FGDLexer(<<>>, MemoryName)
    /\ raised = "none"

\* a call that left the parser as P; consumed: advance returned P.tok in it
Called(call, P, consumed) ==
    /\ parser' = P
    /\ emitted' = IF consumed THEN Append(emitted, P.tok) ELSE emitted
    /\ before' = parser
    /\ taken' = call
    /\ UNCHANGED <<files, lexer, raised>>

CallPeek ==
    /\ ~Failed(parser)
    /\ Called("peek", peek(parser), FALSE)

CallAdvance ==
    /\ ~Failed(parser)
    /\ Called("advance", advance(parser), ~Failed(advance(parser)))

CallMatch ==
    /\ ~Failed(parser)
    /\ \E token_type \in CallTypes, consume \in BOOLEAN :
          Called(IF consume THEN "match consume" ELSE "match",
                 match(parser, token_type, consume),
                 /\ consume
                 /\ ~Failed(match(parser, token_type, consume))
                 /\ match(parser, token_type, consume).flag)

CallExpect ==
    /\ ~Failed(parser)
    /\ \E token_type \in CallTypes :
          Called("expect", expect(parser, token_type), ~Failed(expect(parser, token_type)))

NextCalls ==
    \/ CallPeek
    \/ CallAdvance
    \/ CallMatch
    \/ CallExpect

SpecCalls == InitCalls /\ [][NextCalls]_vars

\* every step is the round of parse() it stands for
StepsAreRounds == [][parser' = parse_step(parser, files')]_vars

(***************************************************************************)
(* Properties of FGDParser.parse and FGDLexer.lex.                         *)
(***************************************************************************)
\* C1: parse() returns normally only when no token is pending or the pending
\* token is EOF; a token that is neither a keyword nor EOF at top level makes it
\* raise instead.
C1_ReturnsOnlyAtEOF ==
    parser.status = "returned" =>
        parser.last_peek = <<>> \/ parser.last_peek[1].type = "EOF"

\* C2: inside a string literal with no closing quote the lexer stops at the end
\* of the buffer: its offset never runs past the end.
C2_UnterminatedStringStops ==
    lexer.at = "string" => lexer.offset <= Len(lexer.buffer)

\* C3: a // comment ends at the end of its line or at the end of the buffer: the
\* lexer never scans on past the end, and a buffer that is one // comment without
\* a newline emits EOF alone.
C3_LineCommentEndsWithBuffer ==
    lexer.at = "line_comment" => lexer.offset <= Len(lexer.buffer)

\* C4: a - belongs to a numeric literal only as its first character: no numeric
\* text is refused by int(), and 5-3 lexes as NUMERIC 5, NUMERIC -3, EOF.
C4_MinusOnlyLeads ==
    /\ raised # "ValueError"
    /\ lexer.buffer = <<"5", "-", "3">> /\ lexer.at \in {"finished", "raised"} =>
           emitted = <<Token("NUMERIC", Num(5)), Token("NUMERIC", Num(0 - 3)),
                       Token("EOF", None)>>

\* C5: the entry  input F(a, b) : "d"  of a class body is accepted and recorded
\* under F as an input with the arguments a, b in order and the doc string d.
C5_CommaSeparatedArgsRecorded ==
    (/\ taken = "io"
     /\ before.last_peek = <<>>
     /\ startswith(leftover(before.lexer), IoCommaArgs)) =>
        /\ parser.status = "running"
        /\ Str(<<"F">>) \in DOMAIN parser.class_def.io
        /\ parser.class_def.io[Str(<<"F">>)] =
               [type |-> Str(Literal.input), args |-> <<Str(<<"a">>), Str(<<"b">>)>>,
                doc |-> Str(<<"d">>)]

\* C6: the parser never asks the lexer for a token after EOF: parse() never ends
\* with the token sequence exhausted (StopIteration).
C6_NeverPastEOF == parser.status # "StopIteration"

\* the parser of the last @include step after it has read the name (line 236)
IncludeNamed == expect(advance(match(before, "KEYWORD", FALSE)), "STRING")

\* the last step was an @include whose name the content manager did not hold
IncludeMissing ==
    /\ taken = "include"
    /\ ~Failed(IncludeNamed)
    /\ find_file(files, IncludeNamed.value.s) = <<>>

\* the last step was an @include whose name the content manager held
IncludeFound ==
    /\ taken = "include"
    /\ ~Failed(IncludeNamed)
    /\ find_file(files, IncludeNamed.value.s) # <<>>

\* the nested parser of the last @include step after its parse()
IncludeParsed ==
    parse_run(FGDParser(find_file(files, IncludeNamed.value.s)[1], IncludeNamed.value.s),
              files)

\* C7: an @include whose name is not found raises nothing and leaves classes,
\* pragmas, excludes, entity_groups and includes as they were; parsing goes on
\* with the token after the name.
C7_MissingIncludeSkipped ==
    IncludeMissing =>
        /\ parser.status = "running"
        /\ parser.classes = before.classes
        /\ parser.pragmas = before.pragmas
        /\ parser.excludes = before.excludes
        /\ parser.entity_groups = before.entity_groups
        /\ parser.includes = before.includes
        /\ parser.lexer = IncludeNamed.lexer
        /\ parser.last_peek = <<>>
        /\ parser.at = "top"

\* an @include that was not found, in a document that is not empty
C7_Witness ==
    /\ IncludeMissing
    /\ parser.status = "running"
    /\ parser.excludes # <<>>
    /\ DOMAIN parser.pragmas # {}

\* C8: when the nested parse of an included file raises, the enclosing parse
\* ends with that exception and its classes, pragmas, excludes, entity_groups
\* and includes hold nothing of the included file.
C8_FailedIncludePropagates ==
    (IncludeFound /\ IncludeParsed.status # "returned") =>
        /\ parser.status = IncludeParsed.status
        /\ parser.classes = before.classes
        /\ parser.pragmas = before.pragmas
        /\ parser.excludes = before.excludes
        /\ parser.entity_groups = before.entity_groups
        /\ parser.includes = before.includes

\* an included file failed after it had produced an item, in a document that is
\* not empty
C8_Witness ==
    /\ IncludeFound
    /\ IncludeParsed.status \in {"FGDParserException", "FGDLexerException"}
    /\ IncludeParsed.excludes # <<>>
    /\ parser.status = IncludeParsed.status
    /\ parser.excludes # <<>>

\* C9: a resolved @include is merged in place once the nested parse has
\* returned: the included classes, excludes and entity groups follow the
\* parent's earlier ones in their own order, a pragma of the include overwrites
\* the parent's earlier one, and a later @mapsize of the parent overwrites the
\* include's.
C9_IncludeMergedInPlace ==
    /\ (IncludeFound /\ IncludeParsed.status = "returned") =>
           /\ parser.status = "running"
           /\ parser.classes = before.classes \o IncludeParsed.classes
           /\ parser.excludes = before.excludes \o IncludeParsed.excludes
           /\ parser.entity_groups = before.entity_groups \o IncludeParsed.entity_groups
           /\ DOMAIN parser.pragmas = DOMAIN before.pragmas \cup DOMAIN IncludeParsed.pragmas
           /\ \A k \in DOMAIN parser.pragmas :
                  parser.pragmas[k] = IF k \in DOMAIN IncludeParsed.pragmas
                                      THEN IncludeParsed.pragmas[k]
                                      ELSE before.pragmas[k]
           /\ parser.includes = Append(before.includes, IncludeNamed.value)
    /\ (/\ parser.status = "returned"
        /\ parser.lexer.buffer = TopExclude \o TopInclude \o TopMapsize
        /\ find_file(files, NameA) = <<FileAll>>) =>
           /\ parser.pragmas["mapsize"] = <<1, 2>>
           /\ parser.excludes = <<Str(<<"x">>), Str(<<"y">>)>>

\* an included file with a mapsize and an exclude was merged into a document
\* that had a mapsize and an exclude of its own
C9_Witness ==
    /\ IncludeFound
    /\ IncludeParsed.status = "returned"
    /\ "mapsize" \in DOMAIN before.pragmas
    /\ "mapsize" \in DOMAIN IncludeParsed.pragmas
    /\ before.pragmas["mapsize"] # IncludeParsed.pragmas["mapsize"]
    /\ before.excludes # <<>>
    /\ IncludeParsed.excludes # <<>>
    /\ parser.status = "running"

\* the parser of the last I/O step after the closing parenthesis (line 363)
IOClosed == IOHead(match(before, "IDENTIFIER", FALSE))

\* the parser of the last I/O step after the match of line 364
IOColonSeen == match(IOClosed, "COLON", FALSE)

\* C10: an I/O entry is stored in the io mapping of its class if and only if a
\* colon follows its closing parenthesis; without the colon the entry is
\* consumed without error, the mapping stays as it was and the class body goes
\* on with the next token.
C10_IOStoredIffColon ==
    (taken = "io" /\ ~Failed(IOColonSeen)) =>
        IF IOColonSeen.flag
        THEN parser.status = "running" =>
                 /\ IOClosed.locals.io_name \in DOMAIN parser.class_def.io
                 /\ parser.class_def.io[IOClosed.locals.io_name].type =
                        IOClosed.locals.io_type
                 /\ parser.class_def.io[IOClosed.locals.io_name].args = IOClosed.locals.args
                 /\ \A n \in DOMAIN parser.class_def.io \ {IOClosed.locals.io_name} :
                        /\ n \in DOMAIN before.class_def.io
                        /\ parser.class_def.io[n] = before.class_def.io[n]
        ELSE /\ parser.status = "running"
             /\ parser.class_def.io = before.class_def.io
             /\ parser.lexer = IOColonSeen.lexer
             /\ parser.last_peek = IOColonSeen.last_peek
             /\ parser.at = "body"

\* an entry without a colon was consumed in a class that already had an entry
C10_Witness ==
    /\ taken = "io"
    /\ ~Failed(IOColonSeen)
    /\ ~IOColonSeen.flag
    /\ parser.status = "running"
    /\ DOMAIN before.class_def.io # {}
    /\ parser.class_def.io = before.class_def.io

\* C11: in a run of lex() that does not raise, an EOF token is the last token
\* emitted and the only EOF, and it is emitted only once the offset has reached
\* the end of the buffer, where the generator ends.
C11_EOFOnceAndLast ==
    raised = "none" =>
        \A i \in 1..Len(emitted) :
            emitted[i].type = "EOF" =>
                /\ i = Len(emitted)
                /\ emitted[i].value = None
                /\ lexer.offset = Len(lexer.buffer)
                /\ lexer.at = "finished"

\* a run that emitted tokens and then EOF
C11_Witness ==
    /\ raised = "none"
    /\ Len(emitted) >= 3
    /\ emitted[Len(emitted)].type = "EOF"
    /\ lexer.at = "finished"
    /\ lexer.offset = Len(lexer.buffer)

\* C12: when parse() of a buffer raises, the parser's classes, pragmas,
\* excludes, entity_groups and includes hold nothing of the constructs that were
\* parsed before the error.
C12_FailureExposesNothing ==
    parser.status \notin {"running", "returned", "hang"} =>
        /\ parser.classes = <<>>
        /\ parser.pragmas = EmptyDict
        /\ parser.excludes = <<>>
        /\ parser.entity_groups = <<>>
        /\ parser.includes = <<>>

\* C13: the entry  h(integer) : 0  of a class body, which has no bracketed
\* list, is stored under h with the type integer, the data [0] and a meta that
\* is present and empty; after base(T) the bases of the class are [T].
C13_PlainPropertyStored ==
    (/\ taken = "param"
     /\ before.last_peek = <<>>
     /\ startswith(leftover(before.lexer), PropData)
     /\ parser.status = "running") =>
        /\ Str(<<"h">>) \in DOMAIN parser.class_def.props
        /\ parser.class_def.props[Str(<<"h">>)].type = Str(<<"i", "n", "t", "e", "g", "e", "r">>)
        /\ parser.class_def.props[Str(<<"h">>)].data = <<Num(0)>>
        /\ "meta" \in DOMAIN parser.class_def.props[Str(<<"h">>)]
        /\ parser.class_def.props[Str(<<"h">>)].meta = EmptyDict
        /\ startswith(parser.lexer.buffer, ClassOpen \o ModBase) =>
               parser.class_def.bases = <<Str(<<"T">>)>>

\* C14: a top-level keyword that is none of @mapsize, @include, @exclude,
\* @entitygroup and does not end in class is consumed without raising: classes,
\* pragmas, excludes, entity_groups and includes stay as they were, that one
\* keyword token is consumed and the loop goes on with the token after it.
C14_OtherKeywordIgnored ==
    taken = "other keyword" =>
        /\ peek(before).tok.type = "KEYWORD"
        /\ parser.status = "running"
        /\ parser.classes = before.classes
        /\ parser.pragmas = before.pragmas
        /\ parser.excludes = before.excludes
        /\ parser.entity_groups = before.entity_groups
        /\ parser.includes = before.includes
        /\ parser.lexer = peek(before).lexer
        /\ parser.last_peek = <<>>
        /\ parser.at = "top"

\* an unrecognised keyword was consumed in a document that is not empty, with
\* more of the buffer to come
C14_Witness ==
    /\ taken = "other keyword"
    /\ parser.status = "running"
    /\ before.excludes # <<>>
    /\ LexerBool(parser.lexer)

\* the first n tokens lex() yields from where L stands
RECURSIVE Pulled(_, _)
Pulled(L, n) ==
    IF n = 0 \/ NextTok(L).yield = <<>> THEN <<>>
    ELSE NextTok(L).yield \o Pulled(NextTok(L).lexer, n - 1)

\* the lexer after lex() has yielded n tokens from where L stands
RECURSIVE AfterPulls(_, _)
AfterPulls(L, n) ==
    IF n = 0 \/ NextTok(L).yield = <<>> THEN L
    ELSE AfterPulls(NextTok(L).lexer, n - 1)

\* C15: the parser buffers at most one token.  A peek or a match that does not
\* consume, made while a token is buffered, returns that token and asks the
\* lexer for nothing; the next advance returns that token and empties the
\* buffer; so the tokens advance has returned, followed by the buffered one,
\* are the tokens the lexer has yielded, each once and in its order.
C15_OneTokenLookahead ==
    /\ Len(parser.last_peek) <= 1
    /\ (taken \in {"peek", "match"} /\ before.last_peek # <<>>) =>
           /\ parser.tok = before.last_peek[1]
           /\ parser.last_peek = before.last_peek
           /\ parser.lexer = before.lexer
    /\ (taken \in {"peek", "match"} /\ before.last_peek = <<>> /\ ~Failed(parser)) =>
           /\ parser.last_peek = NextTok(before.lexer).yield
           /\ parser.tok = parser.last_peek[1]
           /\ parser.lexer = NextTok(before.lexer).lexer
    /\ (taken = "advance" /\ before.last_peek # <<>>) =>
           /\ parser.tok = before.last_peek[1]
           /\ parser.last_peek = <<>>
           /\ parser.lexer = before.lexer
    /\ emitted \o parser.last_peek =
           Pulled(FGDLexer(parser.lexer.buffer, MemoryName),
                  Len(emitted) + Len(parser.last_peek))
    /\ ~Failed(parser) =>
           parser.lexer = AfterPulls(FGDLexer(parser.lexer.buffer, MemoryName),
                                     Len(emitted) + Len(parser.last_peek))

\* two tokens were delivered and a third is buffered after a repeated peek
C15_Witness ==
    /\ taken = "peek"
    /\ before.last_peek # <<>>
    /\ parser.last_peek = before.last_peek
    /\ Len(emitted) = 2
    /\ emitted[1] # emitted[2]
    /\ parser.last_peek[1].type # "EOF"

\* the newline characters of a text
RECURSIVE Newlines(_)
Newlines(s) ==
    IF s = <<>> THEN 0
    ELSE Newlines(SubSeq(s, 1, Len(s) - 1)) + (IF s[Len(s)] = "\n" THEN 1 ELSE 0)

\* the characters of a text after its last newline
RECURSIVE SinceNewline(_)
SinceNewline(s) ==
    IF s = <<>> \/ s[Len(s)] = "\n" THEN 0
    ELSE SinceNewline(SubSeq(s, 1, Len(s) - 1)) + 1

\* C16: while the offset is within the buffer, line_id is 1 plus the newlines
\* consumed and char_id is 1 plus the characters consumed since the last of
\* them; a lexer error stands at the offending character, so it reports that
\* character's 1-based line and column.
C16_LineAndColumnCounted ==
    /\ lexer.offset <= Len(lexer.buffer) =>
           /\ lexer.line_id = 1 + Newlines(SubSeq(lexer.buffer, 1, lexer.offset))
           /\ lexer.line_char_id = 1 + SinceNewline(SubSeq(lexer.buffer, 1, lexer.offset))
    /\ raised = "FGDLexerException" =>
           /\ lexer.offset < Len(lexer.buffer)
           /\ ~isspace(symbol(lexer))
           /\ ~isdigit(symbol(lexer))
           /\ ~isidentifier(symbol(lexer))
           /\ symbol(lexer) \notin DOMAIN Punctuation \cup {"\""}

\* an error on the second line, after a character of that line
C16_Witness ==
    /\ raised = "FGDLexerException"
    /\ lexer.line_id = 2
    /\ lexer.line_char_id = 2
    /\ lexer.offset = 2

\* the enumerations a stored property carries
Carried(prop) == DOMAIN prop \cap {"choices", "flags", "tag_list"}

\* the enumeration a type name calls for: choices before flags before tag_list
Due(type) ==
    IF contains(lower(type), Literal.choices) THEN {"choices"}
    ELSE IF contains(lower(type), Literal.flags) THEN {"flags"}
    ELSE IF contains(lower(type), Literal.tag_list) THEN {"tag_list"}
    ELSE {}

\* the parser of the last property step after the match of line 407
ParamAtEquals == ParamHead(match(before, "IDENTIFIER", FALSE))

\* the property the last property step stored
ParamStored == parser.class_def.props[EnumAt(ParamAtEquals).locals.name]

\* C17: a stored property carries at most one of choices, flags and tag_list,
\* and carries one only when an = followed it and its lower-cased type name
\* contains the matching text, choices going before flags and flags before
\* tag_list.
C17_OneEnumerationByType ==
    /\ \A i \in 1..Len(parser.classes) :
           \A k \in DOMAIN parser.classes[i].props :
               /\ Cardinality(Carried(parser.classes[i].props[k])) <= 1
               /\ Carried(parser.classes[i].props[k]) \subseteq
                      Due(parser.classes[i].props[k].type.s)
    /\ parser.at = "body" =>
           \A k \in DOMAIN parser.class_def.props :
               /\ Cardinality(Carried(parser.class_def.props[k])) <= 1
               /\ Carried(parser.class_def.props[k]) \subseteq
                      Due(parser.class_def.props[k].type.s)
    /\ (taken = "param" /\ ~Failed(parser)) =>
           Carried(ParamStored) =
               IF ParamAtEquals.flag THEN Due(ParamStored.type.s) ELSE {}

\* a property whose type names flags and choices was stored with its choices
C17_Witness ==
    /\ taken = "param"
    /\ ~Failed(parser)
    /\ ParamAtEquals.flag
    /\ contains(lower(ParamStored.type.s), Literal.flags)
    /\ Carried(ParamStored) = {"choices"}

\* the 1-based line and column of the character at offset o of a buffer
Position(buffer, o) ==
    <<1 + Newlines(SubSeq(buffer, 1, o)), 1 + SinceNewline(SubSeq(buffer, 1, o))>>

\* from L on, lex() comes to stand where the lexer of P stands; the token it
\* yields there is the buffered one, the error of P carries the position where
\* that token ends, and no position from the end of the token before it on
RECURSIVE ErrorAfterTokenFrom(_, _)
ErrorAfterTokenFrom(L, P) ==
    LET r == NextTok(L)
    IN  IF r.yield = <<>> THEN FALSE
        ELSE IF r.lexer # P.lexer THEN ErrorAfterTokenFrom(r.lexer, P)
        ELSE /\ r.yield = P.last_peek
             /\ P.where = Position(P.lexer.buffer, P.lexer.offset)
             /\ P.last_peek[1].type # "EOF" => L.offset < P.lexer.offset
             /\ \A o \in L.offset .. (P.lexer.offset - 1) :
                    P.where # Position(P.lexer.buffer, o)

ErrorAfterToken(P) ==
    /\ P.last_peek # <<>>
    /\ ErrorAfterTokenFrom(FGDLexer(P.lexer.buffer, P.lexer.buffer_name), P)

\* C18: the line and column of a parser error are the position of the lexer
\* when it is raised: the position right after the buffered token, the one
\* that was not expected, and not the position where that token starts.
C18_ErrorPositionAfterToken ==
    /\ (parser.status = "FGDParserException" /\ ~IncludeFound) => ErrorAfterToken(parser)
    /\ (IncludeFound /\ IncludeParsed.status = "FGDParserException"
            /\ find_file(files, NameB) = <<>>) =>
           ErrorAfterToken(IncludeParsed)

\* an error at a token of the second line
C18_Witness ==
    /\ parser.status = "FGDParserException"
    /\ ~IncludeFound
    /\ parser.last_peek # <<>>
    /\ parser.last_peek[1].type = "RPAREN"
    /\ parser.where = <<2, 2>>
    /\ parser.excludes # <<>>

\* C19: includes lists, in the order of the directives, the names of the
\* @include directives of the parser's own buffer that were found: a step that
\* resolves one appends its name and nothing else, every other step leaves the
\* list alone, and a name resolved inside an included file stays in the nested
\* parser.
C19_IncludesListOwnDirectives ==
    /\ (taken = "include" /\ ~Failed(parser)) =>
           parser.includes = IF IncludeFound
                             THEN Append(before.includes, IncludeNamed.value)
                             ELSE before.includes
    /\ (taken \notin {"include", "none"} /\ ~Failed(parser)) =>
           parser.includes = before.includes
    /\ (/\ parser.status = "returned"
        /\ parser.lexer.buffer = TopInclude \o TopExclude
        /\ find_file(files, NameA) = <<FileNested>>
        /\ find_file(files, NameB) = <<FileLeaf>>) =>
           /\ parser.includes = <<Str(NameA)>>
           /\ parser.excludes = <<Str(<<"z">>), Str(<<"y">>), Str(<<"x">>)>>

\* an included file that had resolved an include of its own was merged into a
\* parser that had resolved one before
C19_Witness ==
    /\ taken = "include"
    /\ IncludeFound
    /\ IncludeParsed.status = "returned"
    /\ IncludeParsed.includes = <<Str(NameB)>>
    /\ before.includes = <<Str(NameA)>>
    /\ parser.includes = <<Str(NameA), Str(NameA)>>

\* the keyword the last step of the top-level loop consumed
KeywordTaken == peek(before).tok.value.s

\* C20: @mapsize is matched as it is written and @include, @exclude,
\* @entitygroup and @...class in any case: @MapSize is a keyword like any
\* unrecognised one and records no pragma, so @MapSize(1,2) raises a parser
\* error at the ( that follows and sets no mapsize.
C20_MapsizeCaseSensitive ==
    /\ taken \in {"mapsize", "include", "exclude", "entitygroup", "baseclass",
                  "other keyword"} =>
           /\ taken = "mapsize" <=> KeywordTaken = Literal.mapsize
           /\ (lower(KeywordTaken) = Literal.mapsize /\ KeywordTaken # Literal.mapsize) =>
                  /\ taken = "other keyword"
                  /\ parser.status = "running"
                  /\ parser.pragmas = before.pragmas
           /\ (taken = "mapsize" /\ ~Failed(parser)) => "mapsize" \in DOMAIN parser.pragmas
           /\ taken = "include" <=> lower(KeywordTaken) = Literal.include
           /\ taken = "exclude" <=> lower(KeywordTaken) = Literal.exclude
           /\ (taken = "exclude" /\ ~Failed(parser)) =>
                  Len(parser.excludes) = Len(before.excludes) + 1
           /\ taken = "entitygroup" <=> lower(KeywordTaken) = Literal.entitygroup
           /\ (taken = "entitygroup" /\ ~Failed(parser)) =>
                  Len(parser.entity_groups) = Len(before.entity_groups) + 1
           /\ taken = "baseclass" <=> endswith(lower(KeywordTaken), Literal.class)
           /\ (taken = "baseclass" /\ ~Failed(parser)) => parser.at = "body"
    /\ (startswith(parser.lexer.buffer, TopMapSizeCased) /\ Failed(parser)) =>
           /\ parser.status = "FGDParserException"
           /\ parser.last_peek = <<Token("LPAREN", Str(<<"(">>))>>
           /\ "mapsize" \notin DOMAIN parser.pragmas

\* @MapSize(1,2) after an @exclude has raised at its ( and left no pragma
C20_Witness ==
    /\ parser.lexer.buffer = TopExclude \o TopMapSizeCased
    /\ parser.status = "FGDParserException"
    /\ parser.last_peek = <<Token("LPAREN", Str(<<"(">>))>>
    /\ parser.pragmas = EmptyDict
    /\ parser.excludes = <<Str(<<"x">>)>>
    /\ taken = "unexpected"
====
